---- MODULE Spec2Model ----
(***************************************************************************)
(* Model of the chatty-buddy voice chat server: the POST /api/chat        *)
(* handler and the three collaborator calls it chains (speech-to-text,    *)
(* LLM, text-to-speech).  A request is a handler instance; its await      *)
(* points are the places where a collaborator's answer arrives.           *)
(* The browser client (the App component and its recorder hook) is        *)
(* modelled beside it: its event handlers and callbacks are the actions.  *)
(***************************************************************************)
EXTENDS Integers, Sequences, FiniteSets, TLC

(* ---------------------------------------------------------------------- *)
(* Bounds of the model                                                    *)
(* ---------------------------------------------------------------------- *)
MaxStrLen == 2
MaxAudioLen == 4
MaxTime == 2
NumReqs == 2
MaxRecordings == 2
MaxChunks == 2
MaxSegs == 3

(* ---------------------------------------------------------------------- *)
(* Values                                                                 *)
(* ---------------------------------------------------------------------- *)
\* characters of transcripts and replies: a blank, a line break, a letter
Chars == {" ", "\n", "h"}
Whitespace == {" ", "\n"}
ByteVals == {0, 77, 255}

SeqsUpTo(S, n) == UNION {[1..k -> S] : k \in 0..n}

Strs == SeqsUpTo(Chars, MaxStrLen)
ByteSeqs == SeqsUpTo(ByteVals, MaxAudioLen)

\* a value that is not a string (a missing JSON field, a local not yet set)
Undefined == <<"undefined">>
NoBuffer == <<-1>>

\* texts of the upstream error bodies and of the errors thrown locally
ErrTexts == {"", "model not found"}
FetchFailed == "fetch failed"
JsonSyntaxError == "Unexpected token < in JSON at position 0"
NotAString == "Cannot read properties of undefined"
NoAudioFile == "No audio file provided"
NoSpeech == "Could not transcribe audio - no speech detected"
FileTooLarge == "request file too large"
ConnRefused == "connect ECONNREFUSED"

Stages == <<"STT", "LLM", "TTS">>
StageSet == {"STT", "LLM", "TTS"}

STT_SERVICE_URL == "http://localhost:8001"
LLM_SERVICE_URL == "http://localhost:11434"
TTS_SERVICE_URL == "http://localhost:8002"
LLM_MODEL == "gemma3:4b"
SYSTEM_PROMPT == "You are a friendly and helpful voice assistant. Keep your responses concise and conversational, as they will be spoken aloud. Aim for 1-3 sentences unless the user asks for more detail. Avoid using markdown, bullet points, or special formatting since your response will be converted to speech. Be natural and engaging."

\* the configuration read once when the process starts
StartupConfig ==
  [stt |-> STT_SERVICE_URL, llm |-> LLM_SERVICE_URL, tts |-> TTS_SERVICE_URL,
   model |-> LLM_MODEL, system |-> SYSTEM_PROMPT]

(* ---------------------------------------------------------------------- *)
(* Pure functions                                                         *)
(* ---------------------------------------------------------------------- *)
\* String.prototype.trim: drop leading and trailing white space
RECURSIVE TrimLeft(_)
TrimLeft(s) ==
  IF s = <<>> THEN s
  ELSE IF Head(s) \in Whitespace THEN TrimLeft(Tail(s)) ELSE s

RECURSIVE TrimRight(_)
TrimRight(s) ==
  IF s = <<>> THEN s
  ELSE IF s[Len(s)] \in Whitespace THEN TrimRight(SubSeq(s, 1, Len(s) - 1)) ELSE s

trim(s) == TrimRight(TrimLeft(s))

\* Buffer.toString("base64"): 3 bytes become 4 sextets, '=' (64) pads
Pad == 64

\* variant: the last sextet of a two-byte tail is not shifted into place
RECURSIVE toBase64Unshifted(_)
toBase64Unshifted(b) ==
  IF Len(b) = 0 THEN <<>>
  ELSE IF Len(b) = 1 THEN
    << b[1] \div 4, (b[1] % 4) * 16, Pad, Pad >>
  ELSE IF Len(b) = 2 THEN
    << b[1] \div 4, (b[1] % 4) * 16 + (b[2] \div 16), b[2] % 16, Pad >>
  ELSE
    << b[1] \div 4, (b[1] % 4) * 16 + (b[2] \div 16),
       (b[2] % 16) * 4 + (b[3] \div 64), b[3] % 64 >>
    \o toBase64Unshifted(SubSeq(b, 4, Len(b)))

RECURSIVE toBase64(_)
toBase64(b) ==
  IF Len(b) = 0 THEN <<>>
  ELSE IF Len(b) = 1 THEN
    << b[1] \div 4, (b[1] % 4) * 16, Pad, Pad >>
  ELSE IF Len(b) = 2 THEN
    << b[1] \div 4, (b[1] % 4) * 16 + (b[2] \div 16), (b[2] % 16) * 4, Pad >>
  ELSE
    << b[1] \div 4, (b[1] % 4) * 16 + (b[2] \div 16),
       (b[2] % 16) * 4 + (b[3] \div 64), b[3] % 64 >>
    \o toBase64(SubSeq(b, 4, Len(b)))

\* atob(): 4 sextets become up to 3 characters with codes 0..255
RECURSIVE atob(_)
atob(s) ==
  IF Len(s) < 4 THEN <<>>
  ELSE
    << s[1] * 4 + (s[2] \div 16) >>
    \o (IF s[3] = Pad THEN <<>> ELSE << (s[2] % 16) * 16 + (s[3] \div 4) >>)
    \o (IF s[3] = Pad \/ s[4] = Pad THEN <<>> ELSE << (s[3] % 4) * 64 + s[4] >>)
    \o atob(SubSeq(s, 5, Len(s)))

\* the bytes of the Blob that base64ToAudioUrl builds:
\* bytes[i] = binaryString.charCodeAt(i), stored in a Uint8Array
base64ToBytes(base64) ==
  [i \in 1..Len(atob(base64)) |-> atob(base64)[i] % 256]

\* the message of `${stage} service error: ${error}`: prefix, then the text
ServiceError(stage, text) == << stage, text >>
\* an error that is thrown as it is: the message names no stage
PlainError(text) == << "", text >>

Err(msg, code) == [message |-> msg, statusCode |-> code]

\* the reply of the framework to an error thrown by the handler: the status
\* set with reply.code() is kept, else the error's own, else 500
StatusText(s) ==
  IF s = 400 THEN "Bad Request"
  ELSE IF s = 413 THEN "Payload Too Large"
  ELSE "Internal Server Error"

ErrorStatus(code, err) ==
  IF code # 200 THEN code
  ELSE IF err.statusCode >= 400 THEN err.statusCode ELSE 500

ErrorReply(code, err) ==
  [sent |-> TRUE,
   status |-> ErrorStatus(code, err),
   body |-> [statusCode |-> ErrorStatus(code, err),
             error |-> StatusText(ErrorStatus(code, err)),
             message |-> err.message]]

NoReply == [sent |-> FALSE, status |-> 0, body |-> [none |-> TRUE]]

\* no GET /health answered yet
NoHealth == [status |-> "none", services |-> [stt |-> "", llm |-> "", tts |-> ""]]

\* a stamp or duration not taken yet
Unset == -1
NoTiming ==
  [startTime |-> Unset, transcriptionStart |-> Unset, sttMs |-> Unset,
   llmStart |-> Unset, llmMs |-> Unset, ttsStart |-> Unset, ttsMs |-> Unset,
   totalTime |-> Unset]

(* ---------------------------------------------------------------------- *)
(* State                                                                  *)
(* ---------------------------------------------------------------------- *)
VARIABLES
  pc,             \* state of each request's handler
  file,           \* what the request carried: "none", "audio", "toolarge"
  response,       \* the fetch Response of the stage in progress
  calls,          \* outbound calls of the request, in order, with payload
  inflight,       \* stages whose call is outstanding
  ans,            \* the collaborators' answers
  transcription,  \* handler locals
  llmResponse,
  audioResponse,
  replyCode,      \* status set with reply.code()
  resp,           \* the HTTP response sent to the client
  timing,         \* handler locals: the Date.now() stamps and durations
  now,            \* the clock read by Date.now()
  config,         \* the module-level configuration constants
  healthReply     \* the latest reply of GET /health

reqVars == << pc, file, response, calls, inflight, ans, transcription,
              llmResponse, audioResponse, replyCode, resp, timing >>
serverVars == << reqVars, now, config, healthReply >>

VARIABLES
  recordingState,   \* App: 'idle', 'recording', 'processing'
  error,            \* App: the error shown
  messages,         \* App: the chat history
  isRecording,      \* hook state
  recorderError,    \* hook state `error`
  analyserNode,     \* hook state: an analyser is set
  mediaRecorderRef, \* hook refs: the recording they point to, 0 for null
  streamRef,
  audioContextRef,
  audioChunks,      \* audioChunksRef.current: the recording of each chunk
  media,            \* browser objects of each startRecording call
  started,          \* startRecording calls so far
  clientPc,         \* position of the stop-and-send handler
  blob,             \* what stopRecording resolved with
  fetched,          \* the Response that fetch resolved with
  sending           \* calls of sendAudioMessage that have not settled

clientVars == << recordingState, error, messages, isRecording, recorderError,
                 analyserNode, mediaRecorderRef, streamRef, audioContextRef,
                 audioChunks, media, started, clientPc, blob, fetched,
                 sending >>

VARIABLES
  scriptPc,       \* pull script: the command it is at
  RETRY_COUNT,    \* pull script: the shell variable
  probes,         \* pull script: readiness probes run so far
  probeOk,        \* pull script: a probe has succeeded
  pulls,          \* pull script: runs of `ollama pull`
  ollama,         \* pull script: the background `ollama serve` process
  exitStatus      \* pull script: its exit status, once it has exited

scriptVars == << scriptPc, RETRY_COUNT, probes, probeOk, pulls, ollama, exitStatus >>

VARIABLES
  notFound        \* the latest request given to the not-found handler, with its reply

routeVars == << notFound >>

vars == << serverVars, clientVars, scriptVars, routeVars >>

\* an error message with the text it quotes, if any
ClientError(msg, body) == [msg |-> msg, body |-> body]
NoError == ClientError("null", NoReply.body)
NoAudioRecorded == ClientError("No audio recorded", NoReply.body)
FailedToFetch == ClientError("Failed to fetch", NoReply.body)
BodyReadFailed == ClientError("network error", NoReply.body)
JsonParseFailed == ClientError("Unexpected token", NoReply.body)
InvalidCharacter == ClientError("InvalidCharacterError", NoReply.body)
MicDenied == ClientError("Permission denied", NoReply.body)
NotSupported == ClientError("NotSupportedError", NoReply.body)
SendFailed(body) == ClientError("Failed to send message: ", body)

\* the MediaRecorder, the stream's tracks and the AudioContext made by one
\* startRecording call
NoMedia == [recorder |-> "none", track |-> "none", ctx |-> "none"]
\* what `await stopRecording()` yields: null, or a Blob of chunks
NullBlob == [null |-> TRUE, chunks |-> << >>]
BlobOf(chunks) == [null |-> FALSE, chunks |-> chunks]

\* the pull script before its first command
ScriptInit ==
  /\ scriptPc = "serve"
  /\ RETRY_COUNT = 0
  /\ probes = 0
  /\ probeOk = FALSE
  /\ pulls = 0
  /\ ollama = [state |-> "none", signalled |-> FALSE]
  /\ exitStatus = Unset

\* no request has reached the not-found handler yet
NoRoute == [url |-> << >>, status |-> 0, file |-> "", body |-> ""]
RouteInit == notFound = NoRoute

ClientInit ==
  /\ recordingState = "idle"
  /\ error = NoError
  /\ messages = << >>
  /\ isRecording = FALSE
  /\ recorderError = NoError
  /\ analyserNode = FALSE
  /\ mediaRecorderRef = 0
  /\ streamRef = 0
  /\ audioContextRef = 0
  /\ audioChunks = << >>
  /\ media = [i \in 1..MaxRecordings |-> NoMedia]
  /\ started = 0
  /\ clientPc = "none"
  /\ blob = NullBlob
  /\ fetched = NoReply
  /\ sending = 0

Reqs == DOMAIN pc

\* what a collaborator answered, once the call has settled, and when
NoAnswer ==
  [kind |-> "none", text |-> Undefined, error |-> "", bytes |-> NoBuffer,
   at |-> Unset]
Answer(k, t, e, b) == [kind |-> k, text |-> t, error |-> e, bytes |-> b, at |-> now]

InitFor(R) ==
  /\ pc = [r \in R |-> "Idle"]
  /\ file = [r \in R |-> "unread"]
  /\ response = [r \in R |-> "none"]
  /\ calls = [r \in R |-> <<>>]
  /\ inflight = [r \in R |-> {}]
  /\ ans = [r \in R |-> [s \in StageSet |-> NoAnswer]]
  /\ transcription = [r \in R |-> Undefined]
  /\ llmResponse = [r \in R |-> Undefined]
  /\ audioResponse = [r \in R |-> NoBuffer]
  /\ replyCode = [r \in R |-> 200]
  /\ resp = [r \in R |-> NoReply]
  /\ timing = [r \in R |-> NoTiming]
  /\ now = 0
  /\ config = StartupConfig
  /\ healthReply = NoHealth
  /\ ClientInit
  /\ ScriptInit
  /\ RouteInit

Init == InitFor({1})

(* ---------------------------------------------------------------------- *)
(* Steps of the handler                                                   *)
(* ---------------------------------------------------------------------- *)
\* variant: the check for a missing file is left out
MissingInputNever(f) == FALSE

\* if (!data): no file part in the request
MissingInput(f) == f = "none"

\* variant: reply.code(400) is left out before the no-speech error
NoSpeechCodeKept(code) == code

\* reply.code(400) before the two errors the handler raises itself
\* (the status set so far is replaced)
NoSpeechCode(code) == 400
MissingInputCode == 400

\* variant: the transcript is tested without trim()
NoSpeechDetectedNoTrim(t) == t = <<>>

\* if (!transcription.trim())
NoSpeechDetected(t) == trim(t) = <<>>

\* variant: the prompt is the trimmed transcript
LlmRequestTrimmed(userMessage) ==
  [url |-> config.llm, model |-> config.model, prompt |-> trim(userMessage),
   system |-> config.system, stream |-> FALSE]

\* variant: the transcription is trimmed before it is returned
ChatResultTrimmed(t, l, a) ==
  [transcription |-> trim(t), response |-> l, audioBase64 |-> toBase64(a)]

\* the body of the success reply
ChatResult(t, l, a) ==
  [transcription |-> t, response |-> l, audioBase64 |-> toBase64(a)]

\* Date.now() - start
ElapsedSince(start) == now - start

\* variant: the total is taken from the start of the last stage
TotalTimeOfLastStage(tm) == ElapsedSince(tm.ttsStart)

\* const totalTime = Date.now() - startTime
TotalTime(tm) == ElapsedSince(tm.startTime)

\* payloads of the three outbound calls
SttRequest(fn) ==
  [url |-> config.stt, filename |-> IF fn = "" THEN "audio.webm" ELSE fn]
LlmRequest(userMessage) ==
  [url |-> config.llm, model |-> config.model, prompt |-> userMessage,
   system |-> config.system, stream |-> FALSE]
TtsRequest(text) ==
  [url |-> config.tts, text |-> text]

\* the call of `done` (if any) has settled and the call of `stage` begins
Call(r, done, stage, payload) ==
  /\ calls' = [calls EXCEPT ![r] = Append(@, [stage |-> stage, payload |-> payload, at |-> now])]
  /\ inflight' = [inflight EXCEPT ![r] = (@ \ done) \cup {stage}]
  /\ response' = [response EXCEPT ![r] = "none"]

\* variant: the catch block answers with what it has instead of rethrowing
ThrowPartial(r, done, code, err) ==
  /\ pc' = [pc EXCEPT ![r] = "Failed"]
  /\ replyCode' = [replyCode EXCEPT ![r] = code]
  /\ resp' = [resp EXCEPT ![r] =
       [sent |-> TRUE, status |-> code,
        body |-> [transcription |-> transcription[r], message |-> err.message]]]
  /\ inflight' = [inflight EXCEPT ![r] = @ \ done]
  /\ UNCHANGED << calls, response >>

\* variant: the status is kept in one variable shared by all requests
ThrowShared(r, done, code, err) ==
  /\ pc' = [pc EXCEPT ![r] = "Failed"]
  /\ replyCode' = [q \in Reqs |-> code]
  /\ resp' = [resp EXCEPT ![r] = ErrorReply(code, err)]
  /\ inflight' = [inflight EXCEPT ![r] = @ \ done]
  /\ UNCHANGED << calls, response >>

\* the handler throws: the catch block rethrows, the framework replies
\* (`done`: the call that has just settled, if any)
Throw(r, done, code, err) ==
  /\ pc' = [pc EXCEPT ![r] = "Failed"]
  /\ replyCode' = [replyCode EXCEPT ![r] = code]
  /\ resp' = [resp EXCEPT ![r] = ErrorReply(code, err)]
  /\ inflight' = [inflight EXCEPT ![r] = @ \ done]
  /\ UNCHANGED << calls, response >>

\* variant: the LLM call is started together with the STT call
ChatReceiveEager(r) ==
  /\ pc[r] = "Idle"
  /\ \E fn \in {"", "recording.webm"} :
       /\ file' = [file EXCEPT ![r] = "audio"]
       /\ calls' = [calls EXCEPT ![r] =
            << [stage |-> "STT", payload |-> SttRequest(fn), at |-> now],
               [stage |-> "LLM", payload |-> LlmRequest(<<>>), at |-> now] >>]
       /\ inflight' = [inflight EXCEPT ![r] = {"STT", "LLM"}]
       /\ pc' = [pc EXCEPT ![r] = "Transcribing"]
  /\ UNCHANGED << response, replyCode, resp, ans, transcription, llmResponse,
                  audioResponse, timing >>

\* request.file(), data.toBuffer(), then transcribeAudio begins
ChatReceive(r) ==
  /\ pc[r] = "Idle"
  /\ \E f \in {"none", "audio", "toolarge"}, fn \in {"", "recording.webm"} :
       /\ file' = [file EXCEPT ![r] = f]
       /\ \E t0 \in 0..now :
            timing' = [timing EXCEPT ![r].startTime = t0,
                                     ![r].transcriptionStart =
                                        IF MissingInput(f) \/ f = "toolarge"
                                          THEN Unset ELSE now]
       /\ IF MissingInput(f)
            THEN Throw(r, {}, MissingInputCode, Err(PlainError(NoAudioFile), 0))
            ELSE IF f = "toolarge"
            THEN Throw(r, {}, replyCode[r], Err(PlainError(FileTooLarge), 413))
            ELSE /\ Call(r, {}, "STT", SttRequest(fn))
                 /\ pc' = [pc EXCEPT ![r] = "Transcribing"]
                 /\ UNCHANGED << replyCode, resp >>
  /\ UNCHANGED << ans, transcription, llmResponse, audioResponse >>

\* variant: a rejected fetch is tried once more before giving up
FetchSettlesRetry(r, stage) ==
  /\ response[r] = "none"
  /\ \/ /\ ans' = [ans EXCEPT ![r][stage] =
                     Answer("transport", Undefined, ConnRefused, NoBuffer)]
        /\ IF Len(calls[r]) < 4
             THEN /\ calls' = [calls EXCEPT ![r] = Append(@, @[Len(@)])]
                  /\ UNCHANGED << pc, replyCode, resp, inflight, response >>
             ELSE Throw(r, {stage}, replyCode[r], Err(PlainError(FetchFailed), 0))
     \/ /\ \E ok \in {"ok", "notok"} : response' = [response EXCEPT ![r] = ok]
        /\ UNCHANGED << ans, inflight, calls, pc, replyCode, resp >>
  /\ UNCHANGED << file, transcription, llmResponse, audioResponse, timing >>

\* variant: a fetch that has not settled is given up after a while
FetchSettlesTimeout(r, stage) ==
  /\ response[r] = "none"
  /\ \/ /\ ans' = [ans EXCEPT ![r][stage] =
                     Answer("transport", Undefined, ConnRefused, NoBuffer)]
        /\ Throw(r, {stage}, replyCode[r], Err(PlainError(FetchFailed), 0))
     \/ /\ \E ok \in {"ok", "notok"} : response' = [response EXCEPT ![r] = ok]
        /\ UNCHANGED << ans, inflight, calls, pc, replyCode, resp >>
     \/ /\ Throw(r, {stage}, replyCode[r], Err(PlainError("timeout"), 0))
        /\ UNCHANGED ans
  /\ UNCHANGED << file, transcription, llmResponse, audioResponse, timing >>

\* await fetch(...): the promise rejects, or resolves with a Response
FetchSettles(r, stage) ==
  /\ response[r] = "none"
  /\ \/ /\ ans' = [ans EXCEPT ![r][stage] =
                     Answer("transport", Undefined, ConnRefused, NoBuffer)]
        /\ Throw(r, {stage}, replyCode[r], Err(PlainError(FetchFailed), 0))
     \/ /\ \E ok \in {"ok", "notok"} : response' = [response EXCEPT ![r] = ok]
        /\ UNCHANGED << ans, inflight, calls, pc, replyCode, resp >>
  /\ UNCHANGED << file, transcription, llmResponse, audioResponse, timing >>

\* variant: a non-success status is answered by calling the stage again
NotOkBodyRetry(r, stage) ==
  /\ response[r] = "notok"
  /\ \E e \in ErrTexts :
       /\ ans' = [ans EXCEPT ![r][stage] = Answer("status", Undefined, e, NoBuffer)]
       /\ IF Len(calls[r]) < 4
            THEN /\ calls' = [calls EXCEPT ![r] = Append(@, @[Len(@)])]
                 /\ response' = [response EXCEPT ![r] = "none"]
                 /\ UNCHANGED << pc, replyCode, resp, inflight >>
            ELSE Throw(r, {stage}, replyCode[r], Err(ServiceError(stage, e), 0))
  /\ UNCHANGED << file, transcription, llmResponse, audioResponse, timing >>

\* if (!response.ok): await response.text(), throw the stage's error
NotOkBody(r, stage) ==
  /\ response[r] = "notok"
  /\ \/ \E e \in ErrTexts :
          /\ ans' = [ans EXCEPT ![r][stage] = Answer("status", Undefined, e, NoBuffer)]
          /\ Throw(r, {stage}, replyCode[r], Err(ServiceError(stage, e), 0))
     \/ /\ ans' = [ans EXCEPT ![r][stage] =
                     Answer("transport", Undefined, ConnRefused, NoBuffer)]
        /\ Throw(r, {stage}, replyCode[r], Err(PlainError(FetchFailed), 0))
  /\ UNCHANGED << file, transcription, llmResponse, audioResponse, timing >>

\* await response.json() / response.arrayBuffer() rejects
\* variant: the failure is logged and swallowed, no reply is sent
BodyFailsSwallowed(r, stage, kinds) ==
  /\ response[r] = "ok"
  /\ \E k \in kinds :
       ans' = [ans EXCEPT ![r][stage] =
                 Answer(k, Undefined, IF k = "transport" THEN ConnRefused ELSE "",
                        NoBuffer)]
  /\ UNCHANGED << pc, replyCode, resp, inflight, calls, response >>
  /\ UNCHANGED << file, transcription, llmResponse, audioResponse, timing >>

\* reading the body fails: response.json() / arrayBuffer() rejects, the
\* handler's catch block rethrows
BodyFails(r, stage, kinds) ==
  /\ response[r] = "ok"
  /\ \E k \in kinds :
       /\ ans' = [ans EXCEPT ![r][stage] =
                    Answer(k, Undefined, IF k = "transport" THEN ConnRefused ELSE "",
                           NoBuffer)]
       /\ Throw(r, {stage}, replyCode[r],
                Err(PlainError(IF k = "transport" THEN FetchFailed
                                                  ELSE JsonSyntaxError), 0))
  /\ UNCHANGED << file, transcription, llmResponse, audioResponse, timing >>

\* the JSON body parsed: the field read is a string, or is not there
JsonAnswer(t) == Answer(IF t = Undefined THEN "nofield" ELSE "ok", t, "", NoBuffer)

transcribeAudioFetch(r) ==
  /\ pc[r] = "Transcribing"
  /\ FetchSettles(r, "STT")

\* the rest of transcribeAudio, then the handler up to the LLM call
transcribeAudioBody(r) ==
  /\ pc[r] = "Transcribing"
  /\ \/ NotOkBody(r, "STT")
     \/ BodyFails(r, "STT", {"transport", "badjson"})
     \/ /\ response[r] = "ok"
        /\ \E t \in Strs \cup {Undefined} :
             /\ ans' = [ans EXCEPT ![r]["STT"] = JsonAnswer(t)]
             /\ transcription' = [transcription EXCEPT ![r] = t]
             /\ timing' = [timing EXCEPT
                   ![r].sttMs = ElapsedSince(timing[r].transcriptionStart),
                   ![r].llmStart = IF t = Undefined \/ NoSpeechDetected(t)
                                     THEN Unset ELSE now]
             /\ IF t = Undefined
                  THEN Throw(r, {"STT"}, replyCode[r], Err(PlainError(NotAString), 0))
                  ELSE IF NoSpeechDetected(t)
                  THEN Throw(r, {"STT"}, NoSpeechCode(replyCode[r]), Err(PlainError(NoSpeech), 0))
                  ELSE /\ Call(r, {"STT"}, "LLM", LlmRequest(t))
                       /\ pc' = [pc EXCEPT ![r] = "Generating"]
                       /\ UNCHANGED << replyCode, resp >>
        /\ UNCHANGED << file, llmResponse, audioResponse >>

generateLLMResponseFetch(r) ==
  /\ pc[r] = "Generating"
  /\ FetchSettles(r, "LLM")

\* the rest of generateLLMResponse, then the handler up to the TTS call
generateLLMResponseBody(r) ==
  /\ pc[r] = "Generating"
  /\ \/ NotOkBody(r, "LLM")
     \/ BodyFails(r, "LLM", {"transport", "badjson"})
     \/ /\ response[r] = "ok"
        /\ \E l \in Strs \cup {Undefined} :
             /\ ans' = [ans EXCEPT ![r]["LLM"] = JsonAnswer(l)]
             /\ llmResponse' = [llmResponse EXCEPT ![r] = l]
             /\ timing' = [timing EXCEPT
                   ![r].llmMs = ElapsedSince(timing[r].llmStart),
                   ![r].ttsStart = IF l = Undefined THEN Unset ELSE now]
             /\ IF l = Undefined
                  THEN Throw(r, {"LLM"}, replyCode[r], Err(PlainError(NotAString), 0))
                  ELSE /\ Call(r, {"LLM"}, "TTS", TtsRequest(l))
                       /\ pc' = [pc EXCEPT ![r] = "Synthesizing"]
                       /\ UNCHANGED << replyCode, resp >>
        /\ UNCHANGED << file, transcription, audioResponse >>

synthesizeSpeechFetch(r) ==
  /\ pc[r] = "Synthesizing"
  /\ FetchSettles(r, "TTS")

\* the rest of synthesizeSpeech, then the handler's return
synthesizeSpeechBody(r) ==
  /\ pc[r] = "Synthesizing"
  /\ \/ NotOkBody(r, "TTS")
     \/ BodyFails(r, "TTS", {"transport"})
     \/ /\ response[r] = "ok"
        /\ \E b \in ByteSeqs :
             /\ ans' = [ans EXCEPT ![r]["TTS"] = Answer("ok", Undefined, "", b)]
             /\ audioResponse' = [audioResponse EXCEPT ![r] = b]
             /\ timing' = [timing EXCEPT
                   ![r].ttsMs = ElapsedSince(timing[r].ttsStart),
                   ![r].totalTime = TotalTime(timing[r])]
             /\ resp' = [resp EXCEPT ![r] =
                           [sent |-> TRUE, status |-> replyCode[r],
                            body |-> ChatResult(transcription[r], llmResponse[r], b)]]
        /\ inflight' = [inflight EXCEPT ![r] = @ \ {"TTS"}]
        /\ pc' = [pc EXCEPT ![r] = "Complete"]
        /\ UNCHANGED << file, response, calls, transcription, llmResponse, replyCode >>

\* variant: the status reported depends on how the requests went
HealthReplyDegraded ==
  [status |-> IF \E r \in Reqs : pc[r] = "Failed" THEN "degraded" ELSE "healthy",
   services |-> [stt |-> config.stt, llm |-> config.llm, tts |-> config.tts]]

\* GET /health: the configured URLs, no call to any collaborator
HealthReply ==
  [status |-> "healthy",
   services |-> [stt |-> config.stt, llm |-> config.llm, tts |-> config.tts]]

Health ==
  /\ healthReply' = HealthReply
  /\ UNCHANGED << reqVars, now, config, clientVars, scriptVars, routeVars >>

\* time passes
Tick ==
  /\ now < MaxTime
  /\ now' = now + 1
  /\ UNCHANGED << reqVars, config, healthReply, clientVars, scriptVars, routeVars >>

\* variant: a handler step switches the model for the requests that follow
ConfigAfterOverride(c) == [c EXCEPT !.model = "llama3"]

\* the module-level constants are const: no step of a handler assigns them
ConfigAfter(c) == c

\* what a step of a chat handler leaves as it is
HandlerFrame ==
  /\ config' = ConfigAfter(config)
  /\ UNCHANGED << now, healthReply, clientVars, scriptVars, routeVars >>

Next ==
  \/ \E r \in Reqs : ChatReceive(r) /\ HandlerFrame
  \/ \E r \in Reqs : transcribeAudioFetch(r) /\ HandlerFrame
  \/ \E r \in Reqs : transcribeAudioBody(r) /\ HandlerFrame
  \/ \E r \in Reqs : generateLLMResponseFetch(r) /\ HandlerFrame
  \/ \E r \in Reqs : generateLLMResponseBody(r) /\ HandlerFrame
  \/ \E r \in Reqs : synthesizeSpeechFetch(r) /\ HandlerFrame
  \/ \E r \in Reqs : synthesizeSpeechBody(r) /\ HandlerFrame
  \/ Health

Spec == Init /\ [][Next]_vars

\* The same handler with the clock running.  The collaborators answer from
\* a small repertoire here: one transcript with speech and one without, one
\* reply, one audio, one error text, one file name.
SmallStrs == { << "h" >>, << " " >> }
SmallBytes == { << 77 >> }

SmallWorld ==
  \A r \in Reqs :
    /\ \A s \in StageSet :
         /\ ans[r][s].text \in SmallStrs \cup {Undefined}
         /\ ans[r][s].bytes \in SmallBytes \cup {NoBuffer}
         /\ ans[r][s].kind = "status" => ans[r][s].error = "model not found"
    /\ \A i \in 1..Len(calls[r]) :
         calls[r][i].stage = "STT" => calls[r][i].payload.filename = "recording.webm"

NextTimed ==
  \/ \E r \in Reqs : ChatReceive(r) /\ HandlerFrame /\ SmallWorld'
  \/ \E r \in Reqs : transcribeAudioFetch(r) /\ HandlerFrame /\ SmallWorld'
  \/ \E r \in Reqs : transcribeAudioBody(r) /\ HandlerFrame /\ SmallWorld'
  \/ \E r \in Reqs : generateLLMResponseFetch(r) /\ HandlerFrame /\ SmallWorld'
  \/ \E r \in Reqs : generateLLMResponseBody(r) /\ HandlerFrame /\ SmallWorld'
  \/ \E r \in Reqs : synthesizeSpeechFetch(r) /\ HandlerFrame /\ SmallWorld'
  \/ \E r \in Reqs : synthesizeSpeechBody(r) /\ HandlerFrame /\ SmallWorld'
  \/ Tick

SpecTimed == Init /\ [][NextTimed]_vars

\* Several requests at once: the handlers interleave at their await points.
\* The collaborators answer request r with data of its own (a transcript
\* and reply of r letters, an audio of r bytes), or with a blank text,
\* or fail.
TextOf(r) == [i \in 1..r |-> "h"]
AudioOf(r) == [i \in 1..r |-> 77]

ConcWorld ==
  \A r \in Reqs :
    /\ \A s \in StageSet :
         /\ ans[r][s].text \in {Undefined, << " " >>, TextOf(r)}
         /\ ans[r][s].bytes \in {NoBuffer, AudioOf(r)}
         /\ ans[r][s].kind = "status" => ans[r][s].error = "model not found"
    /\ \A i \in 1..Len(calls[r]) :
         calls[r][i].stage = "STT" => calls[r][i].payload.filename = "recording.webm"

\* one step of the handler of request r
HandlerStep(r) ==
  /\ \/ ChatReceive(r)
     \/ transcribeAudioFetch(r)
     \/ transcribeAudioBody(r)
     \/ generateLLMResponseFetch(r)
     \/ generateLLMResponseBody(r)
     \/ synthesizeSpeechFetch(r)
     \/ synthesizeSpeechBody(r)
  /\ HandlerFrame
  /\ ConcWorld'

NextConc ==
  \/ \E r \in Reqs : ChatReceive(r) /\ HandlerFrame /\ ConcWorld'
  \/ \E r \in Reqs : transcribeAudioFetch(r) /\ HandlerFrame /\ ConcWorld'
  \/ \E r \in Reqs : transcribeAudioBody(r) /\ HandlerFrame /\ ConcWorld'
  \/ \E r \in Reqs : generateLLMResponseFetch(r) /\ HandlerFrame /\ ConcWorld'
  \/ \E r \in Reqs : generateLLMResponseBody(r) /\ HandlerFrame /\ ConcWorld'
  \/ \E r \in Reqs : synthesizeSpeechFetch(r) /\ HandlerFrame /\ ConcWorld'
  \/ \E r \in Reqs : synthesizeSpeechBody(r) /\ HandlerFrame /\ ConcWorld'

InitConc == InitFor(1..NumReqs)

SpecConc == InitConc /\ [][NextConc]_vars

\* Every outbound call eventually returns: a pending fetch settles, a
\* pending body read settles, and the event loop then runs the handler's
\* continuation. Nothing is assumed about when a request arrives.
CallReturns(r) ==
  /\ \/ transcribeAudioFetch(r)
     \/ transcribeAudioBody(r)
     \/ generateLLMResponseFetch(r)
     \/ generateLLMResponseBody(r)
     \/ synthesizeSpeechFetch(r)
     \/ synthesizeSpeechBody(r)
  /\ HandlerFrame
  /\ ConcWorld'

SpecLive ==
  /\ InitConc
  /\ [][NextConc]_vars
  /\ \A r \in 1..NumReqs : WF_vars(CallReturns(r))

(* ---------------------------------------------------------------------- *)
(* The client: App.handleToggleRecording and the recorder hook            *)
(* ---------------------------------------------------------------------- *)
\* the replies the client can get for POST /api/chat: the server's, or one
\* of something in between (a gateway's error page, a page with status 200,
\* a JSON body that is not a chat response)
GatewayError == [sent |-> TRUE, status |-> 502, body |-> [html |-> TRUE]]
OkPage == [sent |-> TRUE, status |-> 200, body |-> [html |-> TRUE]]
OkOtherJson == [sent |-> TRUE, status |-> 200, body |-> [other |-> TRUE]]

ClientReplies ==
  { [sent |-> TRUE, status |-> 200, body |-> ChatResult(<< "h" >>, << "h" >>, << 77 >>)],
    ErrorReply(NoSpeechCode(200), Err(PlainError(NoSpeech), 0)),
    ErrorReply(200, Err(ServiceError("LLM", "model not found"), 0)),
    GatewayError, OkPage, OkOtherJson }

\* response.ok
Ok(reply) == reply.status \in 200..299

\* a continuation of an already settled promise runs before any other task
NoMicrotask == clientPc # "stopped"

\* variant: the button is never disabled
ButtonEnabledAlways == TRUE

\* RecordButton: disabled={disabled || isProcessing}
ButtonEnabled == recordingState # "processing"

\* where the handler is inside sendAudioMessage
InSend == clientPc \in {"fetching", "readingText", "readingJson"}

\* variant: the state is set back at the end of the try block only
FinallyOnSuccessOnly(ok) ==
  recordingState' = IF ok THEN "idle" ELSE recordingState

\* finally { setRecordingState('idle') }
Finally(ok) == recordingState' = "idle"

\* the handler returns: its locals are gone
Return ==
  /\ clientPc' = "none"
  /\ blob' = NullBlob
  /\ fetched' = NoReply
  /\ sending' = IF InSend THEN sending - 1 ELSE sending

\* catch (err) { setError(message) } finally { ... }
Fail(err) ==
  /\ error' = err
  /\ Finally(FALSE)
  /\ Return
  /\ UNCHANGED messages

hookVars == << isRecording, recorderError, analyserNode, mediaRecorderRef,
               streamRef, audioContextRef, audioChunks, media, started >>

\* a click while not recording: the else branch, and startRecording up to
\* its await of getUserMedia
ClickStart ==
  /\ NoMicrotask
  /\ ButtonEnabled
  /\ ~isRecording
  /\ started < MaxRecordings
  /\ error' = NoError
  /\ recordingState' = "recording"
  /\ recorderError' = NoError
  /\ audioChunks' = << >>
  /\ started' = started + 1
  /\ media' = [media EXCEPT ![started + 1].recorder = "asking"]
  /\ UNCHANGED << messages, isRecording, analyserNode, mediaRecorderRef, streamRef,
                  audioContextRef, clientPc, blob, fetched, sending >>

\* getUserMedia settles: the rest of startRecording
GetUserMediaSettles(i) ==
  /\ NoMicrotask
  /\ media[i].recorder = "asking"
  /\ \/ /\ recorderError' = MicDenied
        /\ media' = [media EXCEPT ![i].recorder = "denied"]
        /\ UNCHANGED << streamRef, audioContextRef, analyserNode, mediaRecorderRef,
                        isRecording >>
     \/ /\ streamRef' = i
        /\ audioContextRef' = i
        /\ analyserNode' = TRUE
        /\ \/ /\ recorderError' = NotSupported
              /\ media' = [media EXCEPT ![i] =
                             [recorder |-> "failed", track |-> "live", ctx |-> "open"]]
              /\ UNCHANGED << mediaRecorderRef, isRecording >>
           \/ /\ mediaRecorderRef' = i
              /\ media' = [media EXCEPT ![i] =
                             [recorder |-> "recording", track |-> "live", ctx |-> "open"]]
              /\ isRecording' = TRUE
              /\ UNCHANGED recorderError
  /\ UNCHANGED << recordingState, error, messages, audioChunks, started, clientPc,
                  blob, fetched, sending >>

\* mediaRecorder.ondataavailable with a chunk that is not empty (an empty
\* one changes nothing); the last one comes after stop()
DataAvailable(i) ==
  /\ NoMicrotask
  /\ media[i].recorder \in {"recording", "stopping"}
  /\ Len(audioChunks) < MaxChunks
  /\ audioChunks' = Append(audioChunks, i)
  /\ UNCHANGED << recordingState, error, messages, isRecording, recorderError,
                  analyserNode, mediaRecorderRef, streamRef, audioContextRef, media,
                  started, clientPc, blob, fetched, sending >>

\* the microphone goes away: the track ends and the recorder stops by itself
RecorderEnds(i) ==
  /\ NoMicrotask
  /\ media[i].recorder = "recording"
  /\ media' = [media EXCEPT ![i].recorder = "inactive", ![i].track = "stopped"]
  /\ UNCHANGED << recordingState, error, messages, isRecording, recorderError,
                  analyserNode, mediaRecorderRef, streamRef, audioContextRef,
                  audioChunks, started, clientPc, blob, fetched, sending >>

\* a click while recording: the if branch up to `await stopRecording()`,
\* with the promise executor of stopRecording
ClickStop ==
  /\ NoMicrotask
  /\ ButtonEnabled
  /\ isRecording
  /\ error' = NoError
  /\ recordingState' = "processing"
  /\ IF mediaRecorderRef = 0 \/ media[mediaRecorderRef].recorder # "recording"
       THEN /\ isRecording' = FALSE
            /\ blob' = NullBlob
            /\ clientPc' = "stopped"
            /\ UNCHANGED media
       ELSE /\ media' = [media EXCEPT ![mediaRecorderRef].recorder = "stopping"]
            /\ clientPc' = "stopping"
            /\ UNCHANGED << isRecording, blob >>
  /\ UNCHANGED << messages, recorderError, analyserNode, mediaRecorderRef, streamRef,
                  audioContextRef, audioChunks, started, fetched, sending >>

\* mediaRecorder.onstop
OnStop(i) ==
  /\ NoMicrotask
  /\ media[i].recorder = "stopping"
  /\ media' = [j \in DOMAIN media |->
       [recorder |-> IF j = i THEN "inactive" ELSE media[j].recorder,
        track |-> IF j = streamRef THEN "stopped" ELSE media[j].track,
        ctx |-> IF j = audioContextRef THEN "closed" ELSE media[j].ctx]]
  /\ streamRef' = 0
  /\ audioContextRef' = 0
  /\ analyserNode' = FALSE
  /\ isRecording' = FALSE
  /\ blob' = BlobOf(audioChunks)
  /\ audioChunks' = << >>
  /\ clientPc' = "stopped"
  /\ UNCHANGED << recordingState, error, messages, recorderError, mediaRecorderRef,
                  started, fetched, sending >>

\* variant: only a missing blob is refused
NoAudioNullOnly(b) == b.null

\* !audioBlob || audioBlob.size === 0
NoAudio(b) == b.null \/ Len(b.chunks) = 0

\* after `await stopRecording()`: the check of the blob, then
\* sendAudioMessage up to its await of fetch
StopResolved ==
  /\ clientPc = "stopped"
  /\ IF NoAudio(blob)
       THEN Fail(NoAudioRecorded)
       ELSE /\ clientPc' = "fetching"
            /\ sending' = sending + 1
            /\ UNCHANGED << recordingState, error, messages, blob, fetched >>
  /\ UNCHANGED hookVars

\* the fetch of sendAudioMessage settles
ClientFetchSettles ==
  /\ clientPc = "fetching"
  /\ \/ Fail(FailedToFetch)
     \/ \E reply \in ClientReplies :
          /\ fetched' = reply
          /\ clientPc' = IF Ok(reply) THEN "readingJson" ELSE "readingText"
          /\ UNCHANGED << recordingState, error, messages, blob, sending >>
  /\ UNCHANGED hookVars

\* if (!response.ok): await response.text(), then throw
ReadText ==
  /\ clientPc = "readingText"
  /\ \/ Fail(SendFailed(fetched.body))
     \/ Fail(BodyReadFailed)
  /\ UNCHANGED hookVars

UserMessage(data) ==
  [type |-> "user", text |-> data.transcription, audio |-> NoBuffer]
AgentMessage(data) ==
  [type |-> "agent", text |-> data.response, audio |-> base64ToBytes(data.audioBase64)]

\* variant: the user message is added before the audio is decoded, alone
AppendedUserFirst(prev, data) == prev \o << UserMessage(data) >>

\* setMessages(prev => [...prev, userMessage, agentMessage])
Appended(prev, data) == prev \o << UserMessage(data), AgentMessage(data) >>

\* return response.json(), then the rest of the try block
ReadJson ==
  /\ clientPc = "readingJson"
  /\ IF "html" \in DOMAIN fetched.body
       THEN Fail(JsonParseFailed)
       ELSE \/ Fail(BodyReadFailed)
            \/ IF "audioBase64" \in DOMAIN fetched.body
                 THEN /\ messages' = Appended(messages, fetched.body)
                      /\ Finally(TRUE)
                      /\ Return
                      /\ UNCHANGED error
                 ELSE Fail(InvalidCharacter)
  /\ UNCHANGED hookVars

\* the client touches nothing outside the browser
ClientFrame == UNCHANGED << serverVars, scriptVars, routeVars >>

ClientNext ==
  \/ ClickStart /\ ClientFrame
  \/ \E i \in 1..MaxRecordings : GetUserMediaSettles(i) /\ ClientFrame
  \/ \E i \in 1..MaxRecordings : DataAvailable(i) /\ ClientFrame
  \/ \E i \in 1..MaxRecordings : RecorderEnds(i) /\ ClientFrame
  \/ ClickStop /\ ClientFrame
  \/ \E i \in 1..MaxRecordings : OnStop(i) /\ ClientFrame
  \/ StopResolved /\ ClientFrame
  \/ ClientFetchSettles /\ ClientFrame
  \/ ReadText /\ ClientFrame
  \/ ReadJson /\ ClientFrame

\* The stop event follows mediaRecorder.stop(), a settled promise's
\* continuation runs, and the request to the server settles: the fetch and
\* the reading of the body.  Nothing is assumed about the user, the
\* microphone or the chunks.
ClientSpec ==
  /\ Init
  /\ [][ClientNext]_vars
  /\ WF_vars(\E i \in 1..MaxRecordings : OnStop(i) /\ ClientFrame)
  /\ WF_vars(StopResolved /\ ClientFrame)
  /\ WF_vars(ClientFetchSettles /\ ClientFrame)
  /\ WF_vars(ReadText /\ ClientFrame)
  /\ WF_vars(ReadJson /\ ClientFrame)

(* ---------------------------------------------------------------------- *)
(* The model-pull script                                                  *)
(* ---------------------------------------------------------------------- *)
MAX_RETRIES == 30

\* variant: the loop gives up one probe later
RetriesExhaustedLate(count) == count > MAX_RETRIES

\* [ $RETRY_COUNT -ge $MAX_RETRIES ]
RetriesExhausted(count) == count >= MAX_RETRIES

\* exit: the script is over
Exit(status) ==
  /\ scriptPc' = "exited"
  /\ exitStatus' = status

\* ollama serve &  (the shell goes on whether or not the server comes up)
Serve ==
  /\ scriptPc = "serve"
  /\ \E st \in {"running", "exited"} : ollama' = [state |-> st, signalled |-> FALSE]
  /\ scriptPc' = "probe"
  /\ UNCHANGED << RETRY_COUNT, probes, probeOk, pulls, exitStatus >>

\* until curl -s .../api/tags; do ... : one probe, and when it fails the
\* body of the loop up to the sleep
Probe ==
  /\ scriptPc = "probe"
  /\ probes' = probes + 1
  /\ \/ /\ probeOk' = TRUE
        /\ scriptPc' = "pull"
        /\ UNCHANGED << RETRY_COUNT, exitStatus >>
     \/ /\ RETRY_COUNT' = RETRY_COUNT + 1
        /\ IF RetriesExhausted(RETRY_COUNT + 1)
             THEN Exit(1)
             ELSE scriptPc' = "sleep" /\ UNCHANGED exitStatus
        /\ UNCHANGED probeOk
  /\ UNCHANGED << pulls, ollama >>

\* sleep 2
Sleep ==
  /\ scriptPc = "sleep"
  /\ scriptPc' = "probe"
  /\ UNCHANGED << RETRY_COUNT, probes, probeOk, pulls, ollama, exitStatus >>

\* ollama pull "$MODEL_NAME": under `set -e` a failure ends the script
Pull ==
  /\ scriptPc = "pull"
  /\ pulls' = pulls + 1
  /\ \/ scriptPc' = "kill" /\ UNCHANGED exitStatus
     \/ Exit(1)
  /\ UNCHANGED << RETRY_COUNT, probes, probeOk, ollama >>

\* kill $SERVER_PID 2>/dev/null || true
Kill ==
  /\ scriptPc = "kill"
  /\ ollama' = [ollama EXCEPT !.signalled = (ollama.state = "running")]
  /\ scriptPc' = "wait"
  /\ UNCHANGED << RETRY_COUNT, probes, probeOk, pulls, exitStatus >>

\* wait $SERVER_PID 2>/dev/null || true, then the end of the script
Wait ==
  /\ scriptPc = "wait"
  /\ ollama.state = "exited"
  /\ Exit(0)
  /\ UNCHANGED << RETRY_COUNT, probes, probeOk, pulls, ollama >>

\* the server process ends: by itself, or because it was signalled
OllamaExits ==
  /\ ollama.state = "running"
  /\ ollama' = [ollama EXCEPT !.state = "exited"]
  /\ UNCHANGED << scriptPc, RETRY_COUNT, probes, probeOk, pulls, exitStatus >>

ScriptFrame == UNCHANGED << serverVars, clientVars, routeVars >>

ScriptNext ==
  \/ Serve /\ ScriptFrame
  \/ Probe /\ ScriptFrame
  \/ Sleep /\ ScriptFrame
  \/ Pull /\ ScriptFrame
  \/ Kill /\ ScriptFrame
  \/ Wait /\ ScriptFrame
  \/ OllamaExits /\ ScriptFrame

\* Every command of the script returns (the probe, the sleep and the pull
\* among them), and the server process ends once it has been sent the
\* signal of `kill`.
ScriptSpec ==
  /\ Init
  /\ [][ScriptNext]_vars
  /\ WF_vars(Serve /\ ScriptFrame)
  /\ WF_vars(Probe /\ ScriptFrame)
  /\ WF_vars(Sleep /\ ScriptFrame)
  /\ WF_vars(Pull /\ ScriptFrame)
  /\ WF_vars(Kill /\ ScriptFrame)
  /\ WF_vars(Wait /\ ScriptFrame)
  /\ WF_vars(ollama.signalled /\ OllamaExits /\ ScriptFrame)

(* ---------------------------------------------------------------------- *)
(* The not-found handler                                                  *)
(* ---------------------------------------------------------------------- *)
\* request URLs, character by character, made of a few pieces
UrlPieces ==
  { << "/" >>, << "/", "a", "p", "i" >>, << "/", "c", "h", "a", "t" >>,
    << "/", "h", "e", "a", "l", "t", "h" >>, << "/", "x" >>, << "z" >> }

RECURSIVE UrlsOf(_)
UrlsOf(n) ==
  IF n = 0 THEN {<< >>}
  ELSE UrlsOf(n - 1) \cup {u \o piece : u \in UrlsOf(n - 1), piece \in UrlPieces}

Urls == {u \in UrlsOf(MaxSegs) : Len(u) > 0 /\ u[1] = "/"}
Methods == {"GET", "POST"}

ChatPath == << "/", "a", "p", "i", "/", "c", "h", "a", "t" >>
HealthPath == << "/", "h", "e", "a", "l", "t", "h" >>
ApiPrefix == << "/", "a", "p", "i", "/" >>

\* String.prototype.startsWith
startsWith(str, prefix) ==
  Len(str) >= Len(prefix) /\ SubSeq(str, 1, Len(prefix)) = prefix

\* the routes of the server: GET /health, POST /api/chat, and the static
\* plugin for the files of the frontend build ("/" is its index)
Routed(method, url) ==
  \/ method = "GET" /\ url = HealthPath
  \/ method = "POST" /\ url = ChatPath
  \/ method = "GET" /\ url = << "/" >>

\* variant: the API prefix is tested without its closing slash
NotForSpaNoSlash(url) ==
  startsWith(url, SubSeq(ApiPrefix, 1, 4)) \/ startsWith(url, HealthPath)

\* the negation of the handler's condition for index.html
NotForSpa(url) == startsWith(url, ApiPrefix) \/ startsWith(url, HealthPath)

\* fastify.setNotFoundHandler
NotFoundHandler(method, url) ==
  /\ ~Routed(method, url)
  /\ notFound' =
       IF ~NotForSpa(url)
         THEN [url |-> url, status |-> 200, file |-> "index.html", body |-> ""]
         ELSE [url |-> url, status |-> 404, file |-> "", body |-> "Not found"]
  /\ UNCHANGED << serverVars, clientVars, scriptVars >>

RoutesNext == \E method \in Methods, url \in Urls : NotFoundHandler(method, url)

RoutesSpec == Init /\ [][RoutesNext]_vars

(* ---------------------------------------------------------------------- *)
(* Properties                                                             *)
(* ---------------------------------------------------------------------- *)
FailKinds == {"status", "transport", "badjson", "nofield"}
ResultFields == {"transcription", "response", "audioBase64"}

Blank(t) == \A i \in 1..Len(t) : t[i] \in Whitespace
StageOk(r, s) == ans[r][s].kind = "ok"
StageFailed(r, s) == ans[r][s].kind \in FailKinds
Called(r, s) == \E i \in 1..Len(calls[r]) : calls[r][i].stage = s
CallCount(r, s) == Cardinality({i \in 1..Len(calls[r]) : calls[r][i].stage = s})
Terminal(r) == pc[r] \in {"Complete", "Failed"}

\* C1: when the three collaborators succeed (transcript t not blank, reply
\* l, bytes b) the reply is 200 with transcription = t, response = l and
\* audioBase64 = base64(b), none of them altered.
C1_PassThrough ==
  \A r \in Reqs :
    (StageOk(r, "STT") /\ StageOk(r, "LLM") /\ StageOk(r, "TTS")) =>
      /\ resp[r].sent /\ resp[r].status = 200
      /\ resp[r].body.transcription = ans[r]["STT"].text
      /\ resp[r].body.response = ans[r]["LLM"].text
      /\ resp[r].body.audioBase64 = toBase64(ans[r]["TTS"].bytes)

\* a complete request whose transcript and reply carry surrounding blanks
\* and whose audio needs base64 padding
C1_Witness ==
  \E r \in Reqs :
    /\ pc[r] = "Complete"
    /\ ans[r]["STT"].text = << " ", "h" >>
    /\ ans[r]["LLM"].text = << "h", "\n" >>
    /\ ans[r]["TTS"].bytes = << 77, 255 >>
    /\ resp[r].body.audioBase64 = << 19, 31, 60, 64 >>

\* C2: the stages of a request are sequential: the LLM call begins only
\* after the STT answer was fully received, the TTS call only after the
\* LLM answer, and at most one call of the request is outstanding.
C2_Sequential ==
  \A r \in Reqs :
    /\ Cardinality(inflight[r]) <= 1
    /\ Called(r, "LLM") => StageOk(r, "STT")
    /\ Called(r, "TTS") => StageOk(r, "LLM")
    /\ \A s \in StageSet : s \in inflight[r] => ans[r][s].kind = "none"

C2_Witness ==
  \E r \in Reqs :
    /\ pc[r] = "Synthesizing" /\ inflight[r] = {"TTS"}
    /\ StageOk(r, "STT") /\ StageOk(r, "LLM")

\* C3: a transcript that is empty or only white space fails the request
\* with the no-speech error, and neither the LLM nor the TTS is called.
C3_NoSpeech ==
  \A r \in Reqs :
    (StageOk(r, "STT") /\ Blank(ans[r]["STT"].text)) =>
      /\ pc[r] = "Failed"
      /\ resp[r].sent /\ resp[r].body.message = PlainError(NoSpeech)
      /\ ~Called(r, "LLM") /\ ~Called(r, "TTS")
      /\ inflight[r] = {}

C3_Witness ==
  \E r \in Reqs :
    /\ StageOk(r, "STT") /\ ans[r]["STT"].text = << " ", "\n" >>
    /\ pc[r] = "Failed" /\ Len(calls[r]) = 1

\* C4: when the LLM collaborator fails, the request fails with an error
\* that names the LLM stage, and the TTS is never called.
C4_LlmFailureAttributed ==
  \A r \in Reqs :
    StageFailed(r, "LLM") =>
      /\ pc[r] = "Failed" /\ resp[r].sent
      /\ resp[r].body.message[1] = "LLM"
      /\ ~Called(r, "TTS")

\* C5: whatever stage fails and however (status, transport, malformed
\* body), the pipeline stops there: the failed call is the last outbound
\* call of the request and nothing is outstanding.
C5_AbortOnFailure ==
  \A r \in Reqs : \A i \in 1..3 :
    StageFailed(r, Stages[i]) =>
      /\ pc[r] = "Failed"
      /\ Len(calls[r]) = i /\ calls[r][i].stage = Stages[i]
      /\ inflight[r] = {}

C5_Witness ==
  \E r \in Reqs :
    /\ ans[r]["LLM"].kind = "badjson" /\ pc[r] = "Failed" /\ Len(calls[r]) = 2

\* C6: the state machine of a request is linear (Idle, Transcribing,
\* Generating, Synthesizing, Complete; Failed from any of them), each
\* collaborator is called at most once, Complete and Failed are terminal.
Successor(p) ==
  CASE p = "Idle" -> "Transcribing"
    [] p = "Transcribing" -> "Generating"
    [] p = "Generating" -> "Synthesizing"
    [] p = "Synthesizing" -> "Complete"
    [] OTHER -> "none"

C6_Linear ==
  /\ [](\A r \in Reqs : \A s \in StageSet : CallCount(r, s) <= 1)
  /\ [][\A r \in Reqs :
          /\ pc'[r] # pc[r] =>
               /\ ~Terminal(r)
               /\ pc'[r] \in {Successor(pc[r]), "Failed"}
          /\ Terminal(r) =>
               /\ calls'[r] = calls[r] /\ resp'[r] = resp[r]
               /\ inflight'[r] = inflight[r]]_vars

C6_Witness ==
  \E r \in Reqs :
    /\ pc[r] = "Failed" /\ ans[r]["TTS"].kind = "status"
    /\ Len(calls[r]) = 3

\* C7: the reply is 2xx with transcription, response and audioBase64 exactly
\* when the three stages succeeded; any other reply is not 2xx and its error
\* body has none of the result fields.
C7_SuccessIffAllStages ==
  \A r \in Reqs :
    /\ (StageOk(r, "STT") /\ StageOk(r, "LLM") /\ StageOk(r, "TTS")) => resp[r].sent
    /\ resp[r].sent =>
         IF StageOk(r, "STT") /\ StageOk(r, "LLM") /\ StageOk(r, "TTS")
           THEN /\ resp[r].status \in 200..299
                /\ DOMAIN resp[r].body = ResultFields
           ELSE /\ resp[r].status \notin 200..299
                /\ "message" \in DOMAIN resp[r].body
                /\ DOMAIN resp[r].body \cap ResultFields = {}

\* a request that failed after the transcript was there
C7_Witness ==
  \E r \in Reqs :
    /\ StageOk(r, "STT") /\ StageOk(r, "LLM") /\ StageFailed(r, "TTS")
    /\ resp[r].sent /\ resp[r].status = 500

\* C8: a request without an audio file fails with the missing-input error
\* and no call is made to any collaborator.
C8_MissingInput ==
  \A r \in Reqs :
    file[r] = "none" =>
      /\ pc[r] = "Failed"
      /\ resp[r].sent /\ resp[r].body.message = PlainError(NoAudioFile)
      /\ calls[r] = <<>> /\ inflight[r] = {}

C8_Witness ==
  \E r \in Reqs : file[r] = "none" /\ resp[r].sent /\ resp[r].status = 400

\* C9: missing input and no speech are answered 4xx, every collaborator
\* failure 5xx; the two classes never share a status.
C9_StatusClasses ==
  \A r \in Reqs :
    resp[r].sent =>
      /\ file[r] = "none" => resp[r].status \in 400..499
      /\ (StageOk(r, "STT") /\ Blank(ans[r]["STT"].text)) =>
           resp[r].status \in 400..499
      /\ (\E s \in StageSet : StageFailed(r, s)) => resp[r].status \in 500..599

C9_Witness ==
  \E r \in Reqs :
    /\ resp[r].sent /\ StageOk(r, "STT") /\ ans[r]["STT"].text = << " " >>
    /\ resp[r].status = 400

\* C10: whenever a stage fails (status, malformed body, transport), the
\* error sent to the caller names the stage and carries the upstream text.
C10_ErrorNamesStage ==
  \A r \in Reqs : \A s \in StageSet :
    StageFailed(r, s) =>
      /\ resp[r].sent
      /\ resp[r].body.message[1] = s
      /\ ans[r][s].kind \in {"status", "transport"} =>
           resp[r].body.message[2] = ans[r][s].error

\* C11: data flows verbatim between the stages: the LLM prompt is exactly
\* the transcript the STT returned, with the configured system prompt and
\* model and stream false; the text sent to the TTS is exactly the reply
\* the LLM returned, whatever its length.
C11_VerbatimFlow ==
  \A r \in Reqs :
    /\ Called(r, "LLM") =>
         calls[r][2].payload =
           [url |-> LLM_SERVICE_URL, model |-> LLM_MODEL,
            prompt |-> ans[r]["STT"].text, system |-> SYSTEM_PROMPT,
            stream |-> FALSE]
    /\ Called(r, "TTS") =>
         calls[r][3].payload = [url |-> TTS_SERVICE_URL, text |-> ans[r]["LLM"].text]

\* a transcript with surrounding white space went to the LLM, and an
\* empty reply went to the TTS
C11_Witness ==
  \E r \in Reqs :
    /\ Len(calls[r]) = 3
    /\ calls[r][2].payload.prompt = << " ", "h" >>
    /\ ans[r]["LLM"].text = <<>>
    /\ calls[r][3].stage = "TTS"

\* C12: decoding the audioBase64 of a reply the way the client does gives
\* back exactly the bytes the TTS returned.
C12_Base64RoundTrip ==
  \A r \in Reqs :
    pc[r] = "Complete" =>
      base64ToBytes(resp[r].body.audioBase64) = ans[r]["TTS"].bytes

\* an audio of four bytes: a full group of three and a padded tail
C12_Witness ==
  \E r \in Reqs :
    /\ pc[r] = "Complete"
    /\ ans[r]["TTS"].bytes = << 255, 0, 77, 255 >>
    /\ Len(resp[r].body.audioBase64) = 8

\* C13: the total measured for a request is at least the sum of the
\* durations of its stages; each stage is timed from the moment its call
\* begins to the moment its body is read, so the stage intervals are
\* disjoint and lie inside the total interval.
StageTimed(r, i, start, ms) ==
  ms # Unset =>
    /\ start = calls[r][i].at
    /\ ms >= 0
    /\ start + ms = ans[r][Stages[i]].at

C13_TotalCoversStages ==
  \A r \in Reqs :
    LET tm == timing[r] IN
    /\ StageTimed(r, 1, tm.transcriptionStart, tm.sttMs)
    /\ StageTimed(r, 2, tm.llmStart, tm.llmMs)
    /\ StageTimed(r, 3, tm.ttsStart, tm.ttsMs)
    /\ tm.llmMs # Unset => tm.transcriptionStart + tm.sttMs <= tm.llmStart
    /\ tm.ttsMs # Unset => tm.llmStart + tm.llmMs <= tm.ttsStart
    /\ pc[r] = "Complete" => tm.totalTime # Unset
    /\ tm.totalTime # Unset =>
         /\ tm.totalTime >= tm.sttMs + tm.llmMs + tm.ttsMs
         /\ tm.startTime <= tm.transcriptionStart
         /\ tm.ttsStart + tm.ttsMs <= tm.startTime + tm.totalTime

\* a request whose first and last stage took time
C13_Witness ==
  \E r \in Reqs :
    /\ pc[r] = "Complete"
    /\ timing[r].sttMs = 1 /\ timing[r].llmMs = 0 /\ timing[r].ttsMs = 1
    /\ timing[r].totalTime = 2

\* C14: the body of every successful reply carries, besides
\* transcription, response and audioBase64, a metrics object with a
\* durationMs for stt, llm, tts and total.
C14_MetricsInReply ==
  \A r \in Reqs :
    pc[r] = "Complete" =>
      /\ "metrics" \in DOMAIN resp[r].body
      /\ DOMAIN resp[r].body.metrics = {"stt", "llm", "tts", "total"}

\* C17: GET /health always answers "healthy" with the three configured
\* URLs, whatever the requests did, and calls no collaborator.
C17_HealthStatic ==
  /\ [](healthReply # NoHealth =>
          healthReply =
            [status |-> "healthy",
             services |-> [stt |-> STT_SERVICE_URL, llm |-> LLM_SERVICE_URL,
                           tts |-> TTS_SERVICE_URL]])
  /\ [][healthReply' # healthReply =>
          /\ calls' = calls /\ inflight' = inflight
          /\ pc' = pc /\ resp' = resp]_vars

\* /health answered in a state where a request has failed on a collaborator
C17_Witness ==
  /\ healthReply # NoHealth
  /\ \E r \in Reqs : pc[r] = "Failed" /\ StageFailed(r, "TTS")

\* C18: the configuration is never changed by a request, and every outbound
\* call uses the URLs, the model and the system prompt of the startup.
C18_ConfigFixed ==
  /\ config = StartupConfig
  /\ \A r \in Reqs : \A i \in 1..Len(calls[r]) :
       LET c == calls[r][i] IN
       /\ c.stage = "STT" => c.payload.url = STT_SERVICE_URL
       /\ c.stage = "LLM" =>
            /\ c.payload.url = LLM_SERVICE_URL
            /\ c.payload.model = LLM_MODEL
            /\ c.payload.system = SYSTEM_PROMPT
       /\ c.stage = "TTS" => c.payload.url = TTS_SERVICE_URL

\* all three calls were made and the request has failed
C18_Witness ==
  \E r \in Reqs :
    /\ pc[r] = "Failed" /\ Len(calls[r]) = 3
    /\ calls[r][2].payload.model = LLM_MODEL

\* C15: no timeout and no cancellation: the handler of a request moves
\* only in a step in which its outstanding call settles, so a call that
\* never answers leaves the request without a reply for ever; meanwhile
\* every other request that is not finished can take its next step.
Awaiting(r) == pc[r] \in {"Transcribing", "Generating", "Synthesizing"}

C15_NoTimeout ==
  /\ [](\A r \in Reqs :
          /\ resp[r].sent <=> Terminal(r)
          /\ Awaiting(r) =>
               \A q \in Reqs \ {r} : ~Terminal(q) => ENABLED HandlerStep(q))
  /\ [][\A r \in Reqs :
          (Awaiting(r) /\ (pc'[r] # pc[r] \/ resp'[r] # resp[r])) =>
            (ans'[r] # ans[r] /\ ans'[r][Stages[Len(calls[r])]].kind # "none")]_vars

\* the first request is waiting for the LLM, the second one is complete
C15_Witness ==
  /\ NumReqs >= 2
  /\ pc[1] = "Generating" /\ response[1] = "none" /\ ~resp[1].sent
  /\ pc[2] = "Complete"

\* C16: requests are independent: under every interleaving the reply of a
\* request is the one its own input and its own collaborator answers give,
\* it never carries the data of another request, and a step of one request
\* (a failure included) changes nothing of another request nor the
\* configuration.
StageError(s, a) ==
  CASE a.kind = "status" -> Err(ServiceError(s, a.error), 0)
    [] a.kind = "transport" -> Err(PlainError(FetchFailed), 0)
    [] a.kind = "badjson" -> Err(PlainError(JsonSyntaxError), 0)
    [] OTHER -> Err(PlainError(NotAString), 0)

Outcome(f, a) ==
  IF f = "unread" THEN NoReply
  ELSE IF f = "none" THEN ErrorReply(400, Err(PlainError(NoAudioFile), 0))
  ELSE IF f = "toolarge" THEN ErrorReply(200, Err(PlainError(FileTooLarge), 413))
  ELSE IF a["STT"].kind = "none" THEN NoReply
  ELSE IF a["STT"].kind # "ok" THEN ErrorReply(200, StageError("STT", a["STT"]))
  ELSE IF Blank(a["STT"].text) THEN ErrorReply(400, Err(PlainError(NoSpeech), 0))
  ELSE IF a["LLM"].kind = "none" THEN NoReply
  ELSE IF a["LLM"].kind # "ok" THEN ErrorReply(200, StageError("LLM", a["LLM"]))
  ELSE IF a["TTS"].kind = "none" THEN NoReply
  ELSE IF a["TTS"].kind # "ok" THEN ErrorReply(200, StageError("TTS", a["TTS"]))
  ELSE [sent |-> TRUE, status |-> 200,
        body |-> [transcription |-> a["STT"].text, response |-> a["LLM"].text,
                  audioBase64 |-> toBase64(a["TTS"].bytes)]]

ReqState(r) ==
  << pc[r], file[r], response[r], calls[r], inflight[r], ans[r], transcription[r],
     llmResponse[r], audioResponse[r], replyCode[r], resp[r], timing[r] >>

C16_Independent ==
  /\ [](\A r \in Reqs :
          /\ resp[r] = Outcome(file[r], ans[r])
          /\ pc[r] = "Complete" =>
               \A q \in Reqs \ {r} :
                 /\ resp[r].body.transcription # TextOf(q)
                 /\ resp[r].body.response # TextOf(q)
                 /\ resp[r].body.audioBase64 # toBase64(AudioOf(q)))
  /\ [][\A r \in Reqs :
          ReqState(r)' # ReqState(r) =>
            /\ \A q \in Reqs \ {r} : ReqState(q)' = ReqState(q)
            /\ config' = config]_vars

\* one request has failed on its LLM, the other is complete with its own data
C16_Witness ==
  /\ NumReqs >= 2
  /\ pc[1] = "Failed" /\ StageFailed(1, "LLM")
  /\ pc[2] = "Complete" /\ resp[2].body.transcription = TextOf(2)
  /\ resp[2].body.response = TextOf(2)

\* C19: when every outbound call eventually returns, every request that
\* has arrived eventually ends in Complete with a success reply or in
\* Failed with an error reply, stays there, and has made at most three
\* outbound calls.
C19_Terminates ==
  /\ [](\A r \in 1..NumReqs :
          /\ Len(calls[r]) <= 3
          /\ pc[r] = "Complete" =>
               resp[r].sent /\ resp[r].status = 200 /\ ~StageFailed(r, "TTS")
          /\ pc[r] = "Failed" => resp[r].sent /\ resp[r].status >= 400)
  /\ [][\A r \in 1..NumReqs :
          Terminal(r) =>
            pc'[r] = pc[r] /\ resp'[r] = resp[r] /\ calls'[r] = calls[r]]_vars
  /\ \A r \in 1..NumReqs : (pc[r] # "Idle") ~> Terminal(r)

\* every request has ended, one in Complete and one in Failed, each after
\* its third call
C19_Witness ==
  /\ \A r \in Reqs : Terminal(r)
  /\ \E r \in Reqs : pc[r] = "Complete" /\ Len(calls[r]) = 3
  /\ \E r \in Reqs : pc[r] = "Failed" /\ Len(calls[r]) = 3 /\ StageFailed(r, "TTS")

\* C20: in the client, recordingState is 'processing' exactly while the
\* stop-and-send handler is running, and from 'processing' it always comes
\* back to 'idle': after a send that succeeded, after an error answer of
\* the server, after a failed request and when no audio was recorded.
C20_BackToIdle ==
  /\ [](recordingState = "processing" <=> clientPc # "none")
  /\ (recordingState = "processing") ~> (recordingState = "idle")
  /\ (clientPc = "readingText") ~> (recordingState = "idle")
  /\ (clientPc = "readingJson") ~> (recordingState = "idle")
  /\ (clientPc = "stopped" /\ blob.null) ~> (recordingState = "idle")

\* back to idle after an error answer of the server, with the messages of
\* an earlier send that succeeded
C20_Witness ==
  /\ recordingState = "idle"
  /\ Len(messages) = 2
  /\ \E reply \in ClientReplies : ~Ok(reply) /\ error = SendFailed(reply.body)

\* C21: the message list changes only in the step that ends a successful
\* send, by one user message with the transcription followed by one agent
\* message with the reply and the decoded audio, with no error set; a
\* handler that ends otherwise leaves the list alone and sets the error.
\* The list has even length and alternates user, agent.
C21_MessagesFrame ==
  /\ [](/\ Len(messages) % 2 = 0
        /\ \A k \in 1..Len(messages) :
             messages[k].type = IF k % 2 = 1 THEN "user" ELSE "agent")
  /\ [][messages' # messages =>
          /\ clientPc = "readingJson" /\ Ok(fetched)
          /\ Len(messages') = Len(messages) + 2
          /\ SubSeq(messages', 1, Len(messages)) = messages
          /\ messages'[Len(messages) + 1] =
               [type |-> "user", text |-> fetched.body.transcription,
                audio |-> NoBuffer]
          /\ messages'[Len(messages) + 2] =
               [type |-> "agent", text |-> fetched.body.response,
                audio |-> base64ToBytes(fetched.body.audioBase64)]
          /\ error = NoError /\ error' = NoError]_vars
  /\ [][(clientPc # "none" /\ clientPc' = "none" /\ messages' = messages) =>
          error' # NoError]_vars

\* after one exchange a reply came whose audio could not be decoded: the
\* list still holds the two messages of the exchange
C21_Witness ==
  /\ Len(messages) = 2
  /\ messages[2].audio = << 77 >>
  /\ error = InvalidCharacter
  /\ clientPc = "none"

\* C22: at most one send is outstanding, and while one is outstanding the
\* state is 'processing'; while the state is 'processing' no click is
\* handled: no recording is started or stopped by the handler, no second
\* send begins, and the state only goes on to 'idle'.
C22_OneRequest ==
  /\ [](/\ sending <= 1
        /\ sending = 1 <=> InSend
        /\ sending > 0 => recordingState = "processing")
  /\ [][recordingState = "processing" =>
          /\ started' = started
          /\ \A i \in DOMAIN media :
               media[i].recorder = "recording" => media'[i].recorder # "stopping"
          /\ sending' > sending => (sending = 0 /\ clientPc = "stopped")
          /\ recordingState' \in {"processing", "idle"}]_vars

\* a send is outstanding while the hook says it is recording again: the
\* button is all that keeps a click from being handled
C22_Witness ==
  /\ sending = 1
  /\ clientPc = "fetching"
  /\ recordingState = "processing"
  /\ isRecording

\* C23: once every startRecording call has settled, recordingState is
\* 'recording' only if isRecording is true: a start that failed does not
\* leave the state at 'recording'.
StartInProgress == \E i \in DOMAIN media : media[i].recorder = "asking"

C23_StateMatchesHook ==
  (~StartInProgress /\ recordingState = "recording") => isRecording

\* C24: when stopRecording yields null or a blob of size 0 the handler
\* ends with 'No audio recorded' and does not call sendAudioMessage: a
\* send is only ever under way with a blob that is not empty.
C24_NoSendWithoutAudio ==
  /\ [](InSend => (~blob.null /\ Len(blob.chunks) > 0))
  /\ [][(clientPc = "stopped" /\ (blob.null \/ blob.chunks = << >>)) =>
          /\ clientPc' = "none"
          /\ sending' = sending
          /\ error' = NoAudioRecorded
          /\ messages' = messages]_vars

\* the recorder was stopped before it delivered a chunk: the blob had size
\* 0, the handler has ended with the error and nothing is being sent
C24_Witness ==
  /\ error = NoAudioRecorded
  /\ clientPc = "none"
  /\ sending = 0
  /\ started = 1
  /\ media[1].recorder = "inactive"
  /\ streamRef = 0 /\ media[1].track = "stopped"

\* C25: the blob that stopRecording resolves with holds the chunks of the
\* recording that is being stopped and no others: no chunk of an earlier
\* or of another recording is in it.
C25_BlobOfOneRecording ==
  [][\A i \in DOMAIN media :
       (media[i].recorder = "stopping" /\ media'[i].recorder = "inactive") =>
         \A k \in 1..Len(blob'.chunks) : blob'.chunks[k] = i]_vars

\* C26: whenever isRecording is false and no startRecording call is in
\* progress, no stream has a live track, no audio context is open and
\* analyserNode is null.
C26_MicrophoneReleased ==
  (~isRecording /\ ~StartInProgress) =>
    /\ \A i \in DOMAIN media : media[i].track # "live" /\ media[i].ctx # "open"
    /\ ~analyserNode

BeginsApi(u) ==
  /\ Len(u) >= 5
  /\ u[1] = "/" /\ u[2] = "a" /\ u[3] = "p" /\ u[4] = "i" /\ u[5] = "/"
BeginsHealth(u) ==
  /\ Len(u) >= 7
  /\ u[1] = "/" /\ u[2] = "h" /\ u[3] = "e" /\ u[4] = "a" /\ u[5] = "l"
  /\ u[6] = "t" /\ u[7] = "h"

C28_NotFound ==
  notFound # NoRoute =>
    IF BeginsApi(notFound.url) \/ BeginsHealth(notFound.url)
      THEN /\ notFound.status = 404
           /\ notFound.body = "Not found"
           /\ notFound.file # "index.html"
      ELSE /\ notFound.file = "index.html"
           /\ notFound.status = 200

\* both sides have been taken: /healthz was refused, and /api (with no
\* slash after it) would get the page
C28_Witness ==
  /\ notFound.url = << "/", "h", "e", "a", "l", "t", "h", "z" >>
  /\ notFound.status = 404
  /\ ~NotForSpa(SubSeq(ApiPrefix, 1, 4))

TypeOK ==
  /\ \A r \in Reqs :
       /\ pc[r] \in {"Idle", "Transcribing", "Generating", "Synthesizing",
                     "Complete", "Failed"}
       /\ response[r] \in {"none", "ok", "notok"}
       /\ inflight[r] \subseteq StageSet
====
